---- MODULE Spec2Model ----
(***************************************************************************)
(* gitmt: a CLI that keeps several git identities on one machine.          *)
(*                                                                         *)
(* The repository holds two builds of the command line program:           *)
(*   src/bin/gitmt.js      add/remove/change with a global-config          *)
(*                         snapshot and a --local scope, no SSH aliases;   *)
(*   src/unnamed/part_001  add/remove/change with an --alias option and    *)
(*                         the SSH client config editor updateSSHConfig.   *)
(* Every invocation loads ~/.gitmt/config.json, runs one command handler   *)
(* and exits, so the state between commands is what is on disk: the        *)
(* registry file, ~/.ssh/config, the key files and the git configuration.  *)
(* One action models one invocation of one command of one build.  For two  *)
(* invocations that overlap, an invocation is two steps: loading the       *)
(* registry file into its config object, and the handler with its save.    *)
(*                                                                         *)
(* Strings the code transforms or pattern-matches (names, aliases, ids on  *)
(* the command line, paths) are sequences of one-character strings.        *)
(* JSON null is Null (0) for activeUser, whose ids start at 1, and None    *)
(* (the empty sequence) for optional records and values; Some(v) == <<v>>. *)
(***************************************************************************)
EXTENDS Integers, Sequences, FiniteSets, TLC

VARIABLES
    variant,       \* which build is installed: "bin" or "alias"
    users,         \* registry file: config.users
    activeUser,    \* registry file: config.activeUser
    globalConfig,  \* registry file: config.globalConfig
    sshConfig,     \* ~/.ssh/config, as a sequence of lines
    keyFiles,      \* the files that exist in ~/.ssh
    gitGlobal,     \* git config --global user.name / user.email
    gitLocal,      \* git config --local user.name / user.email
    preGlobal,     \* history: gitGlobal before gitmt first ran
    last,          \* history: the command that ran last and how it ended
    procs,         \* two invocations side by side: where each is, and its config
    lost           \* history: records the last save dropped without removing them

vars == <<variant, users, activeUser, globalConfig, sshConfig, keyFiles,
          gitGlobal, gitLocal, preGlobal, last, procs, lost>>

(* ------------------------------ bounds --------------------------------- *)

MaxUsers == 2      \* add is not run on a registry that holds MaxUsers records
MaxStanzas == 3    \* add is not run when ~/.ssh/config would exceed this many Host lines

(* ------------------------------ values --------------------------------- *)

Null == 0
NaN == 0 - 1
None == <<>>
Some(v) == <<v>>

\* the people add is run for: --name and --email
People == { [name |-> <<"J", " ", "o">>, email |-> "e1"],
            [name |-> <<"j", "_", "o">>, email |-> "e2"] }
AliasPeople == { [name |-> <<"j">>, email |-> "e1"],
                 [name |-> <<"k">>, email |-> "e2"] }
\* --alias
Aliases == {<<"j">>, <<"j", "o">>}
OneAlias == {<<"j">>}

NoIdentity == [name |-> None, email |-> None]
OwnIdentity == [name |-> Some(<<"m", "e">>), email |-> Some("me")]

Digits == <<"0", "1", "2", "3", "4", "5", "6", "7", "8", "9">>
\* command-line <id> arguments: every id in use, one beyond, and text
IdArgs == {<<Digits[i + 1]>> : i \in 1..(MaxUsers + 1)}
            \cup {<<"x">>, <<"1", "x">>}

(* ------------------------- JavaScript helpers -------------------------- *)

IsDigit(c) == \E i \in 1..10 : Digits[i] = c
DigitVal(c) == (CHOOSE i \in 1..10 : Digits[i] = c) - 1

RECURSIVE parseDigits(_, _, _)
parseDigits(s, i, acc) ==
    IF i > Len(s) \/ ~IsDigit(s[i]) THEN acc
    ELSE parseDigits(s, i + 1, acc * 10 + DigitVal(s[i]))

\* parseInt(id): the leading decimal digits, NaN when there are none
parseInt(s) ==
    IF s = <<>> \/ ~IsDigit(s[1]) THEN NaN ELSE parseDigits(s, 1, 0)

\* String.prototype.toLowerCase over the characters in use
lowerChar(c) ==
    CASE c = "J" -> "j"
      [] c = "O" -> "o"
      [] c = "K" -> "k"
      [] OTHER -> c
toLowerCase(s) == [i \in 1..Len(s) |-> lowerChar(s[i])]

IsSpace(c) == c = " "

\* s.replace(/\s+/g, "_"): every maximal run of whitespace becomes one "_"
RECURSIVE replaceSpaces(_, _)
replaceSpaces(s, i) ==
    IF i > Len(s) THEN <<>>
    ELSE IF IsSpace(s[i])
         THEN IF i > 1 /\ IsSpace(s[i - 1]) THEN replaceSpaces(s, i + 1)
              ELSE <<"_">> \o replaceSpaces(s, i + 1)
         ELSE <<s[i]>> \o replaceSpaces(s, i + 1)

\* Array.prototype.findIndex(u => u.id === userId), 1-based, 0 for -1
RECURSIVE findFrom(_, _, _)
findFrom(us, id, i) ==
    IF i > Len(us) THEN 0
    ELSE IF us[i].id = id THEN i ELSE findFrom(us, id, i + 1)

\* (fault) -1 is used as an index, which counts from the end of the array
findIndexFromEnd(us, id) ==
    IF findFrom(us, id, 1) = 0 THEN Len(us) ELSE findFrom(us, id, 1)

findIndex(us, id) == findFrom(us, id, 1)

\* Array.prototype.splice(userIndex, 1)
splice(us, i) == [k \in 1..(Len(us) - 1) |-> IF k < i THEN us[k] ELSE us[k + 1]]

IsPrefix(p, s) == Len(p) <= Len(s) /\ \A i \in 1..Len(p) : p[i] = s[i]

(* ------------------------------ key files ------------------------------ *)

\* path.join(SSH_DIR, `id_rsa_gitmt_${...}`); SSH_DIR is the same everywhere
sshKeyPath(name) == <<"id_rsa_gitmt_">> \o toLowerCase(replaceSpaces(name, 1))
AliasSshKeyPath(alias) == <<"id_rsa_gitmt_">> \o toLowerCase(alias)
Pub(path) == path \o <<".pub">>

\* ssh-keygen -f path writes the private and the public file
sshKeygen(files, path) == files \cup {path, Pub(path)}

(* ------------------- ~/.ssh/config, line by line ----------------------- *)
(* A line is [ind, word, arg]: ind spaces, then word, a space and arg.     *)
(* The text is the lines, each followed by "\n".                           *)

Blank == [ind |-> 0, word |-> "", arg |-> <<>>]
HostArg(alias) == <<"github.com-">> \o alias
HostLine(alias) == [ind |-> 0, word |-> "Host", arg |-> HostArg(alias)]

newConfig(alias, path) ==
    << Blank,
       HostLine(alias),
       [ind |-> 4, word |-> "HostName", arg |-> <<"github.com">>],
       [ind |-> 4, word |-> "User", arg |-> <<"git">>],
       [ind |-> 4, word |-> "IdentityFile", arg |-> path],
       [ind |-> 4, word |-> "IdentitiesOnly", arg |-> <<"yes">>] >>

\* the line begins with a word character (the \w of the lookahead)
StartsWord(line) == line.ind = 0 /\ line.word # ""

\* the line begins with the text `Host github.com-${alias}`
MatchesHost(line, alias) ==
    line.ind = 0 /\ line.word = "Host" /\ IsPrefix(HostArg(alias), line.arg)

\* sshConfig.replace(/\nHost github.com-ALIAS[\s\S]*?(?=\n\w|$)/g, ""):
\* a match starts at the "\n" before a matching line, so never at line 1,
\* and runs up to the "\n" before the next line that begins with a word
\* character, or to the end of the text.
RECURSIVE regexReplace(_, _, _, _)
regexReplace(lines, alias, i, inMatch) ==
    IF i > Len(lines) THEN <<>>
    ELSE LET now == IF StartsWord(lines[i])
                    THEN i >= 2 /\ MatchesHost(lines[i], alias)
                    ELSE inMatch
         IN  (IF now THEN <<>> ELSE <<lines[i]>>)
                \o regexReplace(lines, alias, i + 1, now)

RECURSIVE dropLeadingBlank(_)
dropLeadingBlank(lines) ==
    IF lines # <<>> /\ lines[1] = Blank THEN dropLeadingBlank(Tail(lines))
    ELSE lines

RECURSIVE dropTrailingBlank(_)
dropTrailingBlank(lines) ==
    IF lines # <<>> /\ lines[Len(lines)] = Blank
    THEN dropTrailingBlank(SubSeq(lines, 1, Len(lines) - 1))
    ELSE lines

\* sshConfig.trim() + "\n"
trimNewline(lines) ==
    LET t == dropTrailingBlank(dropLeadingBlank(lines))
    IN  IF t = <<>> THEN <<Blank>>
        ELSE <<[t[1] EXCEPT !.ind = 0]>> \o Tail(t)

updateSSHConfig(text, alias, path, isRemove) ==
    trimNewline(IF isRemove THEN regexReplace(text, alias, 1, FALSE)
                ELSE text \o newConfig(alias, path))

\* the number of stanzas headed exactly `Host github.com-${alias}`
StanzaCount(text, alias) ==
    Cardinality({i \in 1..Len(text) : text[i] = HostLine(alias)})
HostLines(text) == Cardinality({i \in 1..Len(text) : text[i].word = "Host"})

(* ----------------------------- git config ------------------------------ *)

\* git.addConfig("user.name", ...) then git.addConfig("user.email", ...).
\* A git that cannot write the configuration (not installed, no repository
\* for the local scope, a locked file) throws at the first call: out = "fail".
addConfig(git, name, email, out) ==
    IF out = "fail" THEN git
    ELSE [name |-> Some(name), email |-> Some(email)]

\* saveGlobalGitConfig: config.globalConfig after the try block; snapOk is
\* whether both git.getConfig calls returned (a missing key reads as null)
saveGlobalGitConfig(gc, git, snapOk) ==
    IF snapOk THEN Some([name |-> git.name, email |-> git.email]) ELSE gc

\* (fault) the scope is ignored: the identity is always written globally
setGitConfigGlobal(gc, gitG, gitL, name, email, local, snapOk, out) ==
    LET snap == gc = None
        gc1 == IF snap THEN saveGlobalGitConfig(gc, gitG, snapOk) ELSE gc
    IN  [ globalConfig |-> gc1,
          saved |-> snap /\ snapOk,
          gitGlobal |-> addConfig(gitG, name, email, out),
          gitLocal |-> gitL,
          ok |-> out = "ok" ]

\* setGitConfig of bin/gitmt.js: the snapshot when there is none, then the
\* two addConfig calls at the scope.  saved: saveConfig() ran inside it.
setGitConfig(gc, gitG, gitL, name, email, local, snapOk, out) ==
    LET snap == gc = None
        gc1 == IF snap THEN saveGlobalGitConfig(gc, gitG, snapOk) ELSE gc
    IN  [ globalConfig |-> gc1,
          saved |-> snap /\ snapOk,
          gitGlobal |-> IF local THEN gitG ELSE addConfig(gitG, name, email, out),
          gitLocal |-> IF local THEN addConfig(gitL, name, email, out) ELSE gitL,
          ok |-> out = "ok" ]

\* setGitConfig of part_001: always the global scope, no snapshot
AliasSetGitConfig(gitG, name, email, out) ==
    [ gitGlobal |-> addConfig(gitG, name, email, out), ok |-> out = "ok" ]

GitOuts == {"ok", "fail"}

(* ------------------------------ registry ------------------------------- *)

\* const userId = config.users.length + 1
nextId(us) == Len(us) + 1

\* (fault) add activates every new identity
noActiveUserAlways(active) == TRUE

\* if (!config.activeUser): null and 0 are both falsy
noActiveUser(active) == active = Null

\* (fault) remove forgets to clear activeUser
clearActiveNever(active, userId) == active

\* if (config.activeUser === userId) config.activeUser = null
clearActive(active, userId) == IF active = userId THEN Null ELSE active

\* fs.unlinkSync of the private and then the public key inside the try
\* block, each only if it exists.  A directory that does not allow deleting
\* makes the first unlinkSync attempted throw: out = "fail".
unlinkKeys(files, path, out) ==
    IF out = "fail" /\ (path \in files \/ Pub(path) \in files)
    THEN [files |-> files, threw |-> TRUE]
    ELSE [files |-> files \ {path, Pub(path)}, threw |-> FALSE]

RmOuts == {"ok", "fail"}

sshKeyExists(files, path) == path \in files \/ Pub(path) \in files

\* cmd: the command; userId: the id it worked on (parseInt of its argument,
\* the id add assigned, the active id for current); scope: where add or
\* change was asked to write the git identity; key: what happened at the key
\* prompt; out: what was reported; done: the handler returned, did not throw
Cmd(cmd, userId, scope, done, key, out) ==
    [cmd |-> cmd, userId |-> userId, scope |-> scope, done |-> done,
     key |-> key, out |-> out]

Scope(local) == IF local THEN "local" ELSE "global"

(* ------------------------ bin/gitmt.js commands ------------------------ *)
(* What the environment answers is chosen where the handler asks for it:   *)
(* the confirm() prompt, whether git.getConfig returns, whether            *)
(* git.addConfig and fs.unlinkSync succeed.                                *)

Answers(asked) == IF asked THEN BOOLEAN ELSE {FALSE}
Outcomes(called, outs) == IF called THEN outs ELSE {"ok"}

Add(name, email, local) ==
    /\ variant = "bin"
    /\ Len(users) < MaxUsers
    /\ LET path == sshKeyPath(name)
           asked == path \notin keyFiles
           userId == nextId(users)
           rec == [id |-> userId, name |-> name, email |-> email,
                   alias |-> None, sshKeyPath |-> path]
           users1 == Append(users, rec)
           activate == noActiveUser(activeUser)
       IN  \E generateKey \in Answers(asked),
              snapOk \in Answers(activate /\ globalConfig = None),
              gitOut \in Outcomes(activate, GitOuts) :
           LET g == setGitConfig(globalConfig, gitGlobal, gitLocal, name, email,
                                 local, snapOk, gitOut)
               key == IF ~asked THEN "existed"
                      ELSE IF generateKey THEN "accepted" ELSE "declined"
           IN  /\ keyFiles' = IF asked /\ generateKey
                              THEN sshKeygen(keyFiles, path) ELSE keyFiles
               /\ IF ~activate
                  THEN /\ users' = users1
                       /\ UNCHANGED <<activeUser, globalConfig, gitGlobal, gitLocal>>
                       /\ last' = Cmd("add", userId, Scope(local), TRUE, key, "added")
                  ELSE /\ gitGlobal' = g.gitGlobal
                       /\ gitLocal' = g.gitLocal
                       /\ IF g.ok \/ g.saved
                          THEN /\ users' = users1
                               /\ activeUser' = userId
                               /\ globalConfig' = g.globalConfig
                          ELSE UNCHANGED <<users, activeUser, globalConfig>>
                       /\ last' = Cmd("add", userId, Scope(local), g.ok, key,
                                      IF g.ok THEN "added" ELSE "threw")
    /\ UNCHANGED <<procs, lost, variant, sshConfig, preGlobal>>

Remove(id) ==
    /\ variant = "bin"
    /\ LET userId == parseInt(id)
           userIndex == findIndex(users, userId)
       IN  IF userIndex = 0
           THEN /\ last' = Cmd("remove", userId, "none", TRUE, "none", "notfound")
                /\ UNCHANGED <<users, activeUser, keyFiles>>
           ELSE LET user == users[userIndex]
                    exists == sshKeyExists(keyFiles, user.sshKeyPath)
                IN  \E removeSSH \in Answers(exists) :
                    \E rmOut \in Outcomes(removeSSH, RmOuts) :
                    LET u == unlinkKeys(keyFiles, user.sshKeyPath, rmOut)
                        key == IF ~exists THEN "absent"
                               ELSE IF ~removeSSH THEN "declined"
                               ELSE IF u.threw THEN "failed" ELSE "accepted"
                    IN  /\ keyFiles' = IF removeSSH THEN u.files ELSE keyFiles
                        /\ users' = splice(users, userIndex)
                        /\ activeUser' = clearActive(activeUser, userId)
                        /\ last' = Cmd("remove", userId, "none", TRUE, key, "removed")
    /\ UNCHANGED <<procs, lost, variant, globalConfig, sshConfig, gitGlobal, gitLocal, preGlobal>>

Change(id, local) ==
    /\ variant = "bin"
    /\ LET userId == parseInt(id)
           userIndex == findIndex(users, userId)
       IN  IF userIndex = 0
           THEN /\ last' = Cmd("change", userId, "none", TRUE, "none", "notfound")
                /\ UNCHANGED <<activeUser, globalConfig, gitGlobal, gitLocal>>
           ELSE \E snapOk \in Answers(globalConfig = None), gitOut \in GitOuts :
                LET user == users[userIndex]
                    g == setGitConfig(globalConfig, gitGlobal, gitLocal,
                                      user.name, user.email, local, snapOk, gitOut)
                IN  /\ gitGlobal' = g.gitGlobal
                    /\ gitLocal' = g.gitLocal
                    /\ IF g.ok \/ g.saved
                       THEN /\ activeUser' = userId
                            /\ globalConfig' = g.globalConfig
                       ELSE UNCHANGED <<activeUser, globalConfig>>
                    /\ last' = Cmd("change", userId, Scope(local), g.ok, "none",
                                   IF g.ok THEN "switched" ELSE "threw")
    /\ UNCHANGED <<procs, lost, variant, users, sshConfig, keyFiles, preGlobal>>

\* user is undefined when no record has the active id: reading user.name throws
Current ==
    /\ variant = "bin"
    /\ LET userIndex == findIndex(users, activeUser)
       IN  last' = IF noActiveUser(activeUser)
                   THEN Cmd("current", Null, "none", TRUE, "none", "noactive")
                   ELSE IF userIndex = 0
                   THEN Cmd("current", activeUser, "none", FALSE, "none", "threw")
                   ELSE Cmd("current", activeUser, "none", TRUE, "none", "current")
    /\ UNCHANGED <<procs, lost, variant, users, activeUser, globalConfig, sshConfig, keyFiles,
                   gitGlobal, gitLocal, preGlobal>>

List ==
    /\ variant = "bin"
    /\ last' = Cmd("list", Null, "none", TRUE, "none",
                   IF Len(users) = 0 THEN "nousers" ELSE "listed")
    /\ UNCHANGED <<procs, lost, variant, users, activeUser, globalConfig, sshConfig, keyFiles,
                   gitGlobal, gitLocal, preGlobal>>

\* (fault) global takes the snapshot itself when none is saved
GlobalSnapshots ==
    /\ variant = "bin"
    /\ globalConfig' = saveGlobalGitConfig(globalConfig, gitGlobal, globalConfig = None)
    /\ last' = Cmd("global", Null, "none", TRUE, "none", "saved")
    /\ UNCHANGED <<procs, lost, variant, users, activeUser, sshConfig, keyFiles,
                   gitGlobal, gitLocal, preGlobal>>

Global ==
    /\ variant = "bin"
    /\ last' = Cmd("global", Null, "none", TRUE, "none",
                   IF globalConfig # None THEN "saved" ELSE "nosaved")
    /\ UNCHANGED <<procs, lost, variant, users, activeUser, globalConfig, sshConfig, keyFiles,
                   gitGlobal, gitLocal, preGlobal>>

\* (fault) key reads the public key file without looking whether it exists
KeyReadsUnchecked(id) ==
    /\ variant = "bin"
    /\ LET userId == parseInt(id)
           userIndex == findIndex(users, userId)
       IN  last' = IF userIndex = 0
                   THEN Cmd("key", userId, "none", TRUE, "none", "notfound")
                   ELSE IF Pub(users[userIndex].sshKeyPath) \notin keyFiles
                   THEN Cmd("key", userId, "none", FALSE, "read", "threw")
                   ELSE Cmd("key", userId, "none", TRUE, "read", "key")
    /\ UNCHANGED <<procs, lost, variant, users, activeUser, globalConfig, sshConfig, keyFiles,
                   gitGlobal, gitLocal, preGlobal>>

Key(id) ==
    /\ variant = "bin"
    /\ LET userId == parseInt(id)
           userIndex == findIndex(users, userId)
       IN  last' = IF userIndex = 0
                   THEN Cmd("key", userId, "none", TRUE, "none", "notfound")
                   ELSE IF Pub(users[userIndex].sshKeyPath) \notin keyFiles
                   THEN Cmd("key", userId, "none", TRUE, "absent", "nokey")
                   ELSE Cmd("key", userId, "none", TRUE, "read", "key")
    /\ UNCHANGED <<procs, lost, variant, users, activeUser, globalConfig, sshConfig, keyFiles,
                   gitGlobal, gitLocal, preGlobal>>

(* ------------------------- part_001 commands --------------------------- *)

AliasAdd(name, email, alias) ==
    /\ variant = "alias"
    /\ Len(users) < MaxUsers
    /\ HostLines(sshConfig) + 2 <= MaxStanzas
    /\ LET path == AliasSshKeyPath(alias)
           asked == path \notin keyFiles
           userId == nextId(users)
           rec == [id |-> userId, name |-> name, email |-> email,
                   alias |-> alias, sshKeyPath |-> path]
           activate == noActiveUser(activeUser)
       IN  \E generateKey \in Answers(asked), gitOut \in Outcomes(activate, GitOuts) :
           LET generated == asked /\ generateKey
               ssh1 == IF generated
                       THEN updateSSHConfig(sshConfig, alias, path, FALSE)
                       ELSE sshConfig
               g == AliasSetGitConfig(gitGlobal, name, email, gitOut)
               ok == ~activate \/ g.ok
               key == IF ~asked THEN "existed"
                      ELSE IF generateKey THEN "accepted" ELSE "declined"
           IN  /\ keyFiles' = IF generated THEN sshKeygen(keyFiles, path)
                              ELSE keyFiles
               /\ gitGlobal' = IF activate THEN g.gitGlobal ELSE gitGlobal
               /\ IF ok
                  THEN /\ users' = Append(users, rec)
                       /\ activeUser' = IF activate THEN userId ELSE activeUser
                       /\ sshConfig' = updateSSHConfig(ssh1, name, path, FALSE)
                  ELSE /\ sshConfig' = ssh1
                       /\ UNCHANGED <<users, activeUser>>
               /\ last' = Cmd("add", userId, "global", ok, key,
                              IF ok THEN "added" ELSE "threw")
    /\ UNCHANGED <<procs, lost, variant, globalConfig, gitLocal, preGlobal>>

AliasRemove(id) ==
    /\ variant = "alias"
    /\ LET userId == parseInt(id)
           userIndex == findIndex(users, userId)
       IN  IF userIndex = 0
           THEN /\ last' = Cmd("remove", userId, "none", TRUE, "none", "notfound")
                /\ UNCHANGED <<users, activeUser, keyFiles, sshConfig>>
           ELSE LET user == users[userIndex]
                    exists == sshKeyExists(keyFiles, user.sshKeyPath)
                IN  \E removeSSH \in Answers(exists) :
                    \E rmOut \in Outcomes(removeSSH, RmOuts) :
                    LET u == unlinkKeys(keyFiles, user.sshKeyPath, rmOut)
                        ssh1 == IF removeSSH /\ ~u.threw
                                THEN updateSSHConfig(sshConfig, user.alias, <<>>, TRUE)
                                ELSE sshConfig
                        key == IF ~exists THEN "absent"
                               ELSE IF ~removeSSH THEN "declined"
                               ELSE IF u.threw THEN "failed" ELSE "accepted"
                    IN  /\ keyFiles' = IF removeSSH THEN u.files ELSE keyFiles
                        /\ users' = splice(users, userIndex)
                        /\ activeUser' = clearActive(activeUser, userId)
                        /\ sshConfig' = updateSSHConfig(ssh1, user.name,
                                                        user.sshKeyPath, TRUE)
                        /\ last' = Cmd("remove", userId, "none", TRUE, key, "removed")
    /\ UNCHANGED <<procs, lost, variant, globalConfig, gitGlobal, gitLocal, preGlobal>>

AliasChange(id) ==
    /\ variant = "alias"
    /\ LET userId == parseInt(id)
           userIndex == findIndex(users, userId)
       IN  IF userIndex = 0
           THEN /\ last' = Cmd("change", userId, "none", TRUE, "none", "notfound")
                /\ UNCHANGED <<activeUser, gitGlobal>>
           ELSE \E gitOut \in GitOuts :
                LET user == users[userIndex]
                    g == AliasSetGitConfig(gitGlobal, user.name, user.email, gitOut)
                IN  /\ gitGlobal' = g.gitGlobal
                    /\ activeUser' = IF g.ok THEN userId ELSE activeUser
                    /\ last' = Cmd("change", userId, "global", g.ok, "none",
                                   IF g.ok THEN "switched" ELSE "threw")
    /\ UNCHANGED <<procs, lost, variant, users, globalConfig, sshConfig, keyFiles, gitLocal,
                   preGlobal>>

AliasCurrent ==
    /\ variant = "alias"
    /\ LET userIndex == findIndex(users, activeUser)
       IN  last' = IF noActiveUser(activeUser)
                   THEN Cmd("current", Null, "none", TRUE, "none", "noactive")
                   ELSE IF userIndex = 0
                   THEN Cmd("current", activeUser, "none", FALSE, "none", "threw")
                   ELSE Cmd("current", activeUser, "none", TRUE, "none", "current")
    /\ UNCHANGED <<procs, lost, variant, users, activeUser, globalConfig, sshConfig, keyFiles,
                   gitGlobal, gitLocal, preGlobal>>

AliasList ==
    /\ variant = "alias"
    /\ last' = Cmd("list", Null, "none", TRUE, "none",
                   IF Len(users) = 0 THEN "nousers" ELSE "listed")
    /\ UNCHANGED <<procs, lost, variant, users, activeUser, globalConfig, sshConfig, keyFiles,
                   gitGlobal, gitLocal, preGlobal>>

AliasKey(id) ==
    /\ variant = "alias"
    /\ LET userId == parseInt(id)
           userIndex == findIndex(users, userId)
       IN  last' = IF userIndex = 0
                   THEN Cmd("key", userId, "none", TRUE, "none", "notfound")
                   ELSE IF Pub(users[userIndex].sshKeyPath) \notin keyFiles
                   THEN Cmd("key", userId, "none", TRUE, "absent", "nokey")
                   ELSE Cmd("key", userId, "none", TRUE, "read", "key")
    /\ UNCHANGED <<procs, lost, variant, users, activeUser, globalConfig, sshConfig, keyFiles,
                   gitGlobal, gitLocal, preGlobal>>

(* ------------------- two invocations of bin/gitmt.js ------------------- *)
(* Each process reads the registry file once, when the module is loaded,   *)
(* and writes it from its config object in saveConfig; nothing locks the   *)
(* file between the two.                                                   *)

Procs == {"p", "q"}

\* the config object of a process
Registry(us, active, gc) ==
    [users |-> us, activeUser |-> active, globalConfig |-> gc]

\* let config = { users: [], activeUser: null, globalConfig: null }
NotRunning == [pc |-> "idle", config |-> Registry(<<>>, Null, None)]

\* the process has ended; its config object is gone
Exited == [pc |-> "exited", config |-> Registry(<<>>, Null, None)]

\* (fault) saveConfig leaves the file as it is
saveConfigSkipped(config, file) == file

\* writeFileSync(CONFIG_FILE, JSON.stringify(config)): the file becomes the
\* config object of the writer, whatever the file held
saveConfig(config, file) == config

Recs(us) == {us[i] : i \in 1..Len(us)}

\* if (existsSync(CONFIG_FILE)) config = JSON.parse(readFileSync(...))
RaceLoad(p) ==
    /\ variant = "bin"
    /\ procs[p].pc = "idle"
    /\ procs' = [procs EXCEPT ![p] =
                    [pc |-> "loaded",
                     config |-> Registry(users, activeUser, globalConfig)]]
    /\ UNCHANGED <<variant, users, activeUser, globalConfig, sshConfig, keyFiles,
                   gitGlobal, gitLocal, preGlobal, last, lost>>

\* the add handler of a process that has loaded: as Add, on its config object
RaceAdd(p, name, email, local) ==
    /\ variant = "bin"
    /\ procs[p].pc = "loaded"
    /\ Len(procs[p].config.users) < MaxUsers
    /\ LET config == procs[p].config
           file == Registry(users, activeUser, globalConfig)
           path == sshKeyPath(name)
           asked == path \notin keyFiles
           userId == nextId(config.users)
           rec == [id |-> userId, name |-> name, email |-> email,
                   alias |-> None, sshKeyPath |-> path]
           users1 == Append(config.users, rec)
           activate == noActiveUser(config.activeUser)
       IN  \E generateKey \in Answers(asked),
              snapOk \in Answers(activate /\ config.globalConfig = None),
              gitOut \in Outcomes(activate, GitOuts) :
           LET g == setGitConfig(config.globalConfig, gitGlobal, gitLocal,
                                 name, email, local, snapOk, gitOut)
               config1 == IF activate
                          THEN Registry(users1, userId, g.globalConfig)
                          ELSE Registry(users1, config.activeUser,
                                        config.globalConfig)
               ok == ~activate \/ g.ok
               wrote == ok \/ g.saved
               w == IF wrote THEN saveConfig(config1, file) ELSE file
               key == IF ~asked THEN "existed"
                      ELSE IF generateKey THEN "accepted" ELSE "declined"
           IN  /\ keyFiles' = IF asked /\ generateKey
                              THEN sshKeygen(keyFiles, path) ELSE keyFiles
               /\ gitGlobal' = IF activate THEN g.gitGlobal ELSE gitGlobal
               /\ gitLocal' = IF activate THEN g.gitLocal ELSE gitLocal
               /\ users' = w.users
               /\ activeUser' = w.activeUser
               /\ globalConfig' = w.globalConfig
               /\ lost' = IF wrote THEN Recs(users) \ Recs(w.users) ELSE {}
               /\ last' = Cmd("add", userId, Scope(local), ok, key,
                              IF ok THEN "added" ELSE "threw")
    /\ procs' = [procs EXCEPT ![p] = Exited]
    /\ UNCHANGED <<variant, sshConfig, preGlobal>>

\* the remove handler of a process that has loaded: as Remove, on its
\* config object
RaceRemove(p, id) ==
    /\ variant = "bin"
    /\ procs[p].pc = "loaded"
    /\ LET config == procs[p].config
           file == Registry(users, activeUser, globalConfig)
           userId == parseInt(id)
           userIndex == findIndex(config.users, userId)
       IN  IF userIndex = 0
           THEN /\ last' = Cmd("remove", userId, "none", TRUE, "none", "notfound")
                /\ lost' = {}
                /\ UNCHANGED <<users, activeUser, globalConfig, keyFiles>>
           ELSE LET user == config.users[userIndex]
                    exists == sshKeyExists(keyFiles, user.sshKeyPath)
                IN  \E removeSSH \in Answers(exists) :
                    \E rmOut \in Outcomes(removeSSH, RmOuts) :
                    LET u == unlinkKeys(keyFiles, user.sshKeyPath, rmOut)
                        w == saveConfig(
                                Registry(splice(config.users, userIndex),
                                         clearActive(config.activeUser, userId),
                                         config.globalConfig),
                                file)
                        key == IF ~exists THEN "absent"
                               ELSE IF ~removeSSH THEN "declined"
                               ELSE IF u.threw THEN "failed" ELSE "accepted"
                    IN  /\ keyFiles' = IF removeSSH THEN u.files ELSE keyFiles
                        /\ users' = w.users
                        /\ activeUser' = w.activeUser
                        /\ globalConfig' = w.globalConfig
                        /\ lost' = Recs(users) \ (Recs(w.users) \cup {user})
                        /\ last' = Cmd("remove", userId, "none", TRUE, key, "removed")
    /\ procs' = [procs EXCEPT ![p] = Exited]
    /\ UNCHANGED <<variant, sshConfig, gitGlobal, gitLocal, preGlobal>>

(* --------------------------- specification ----------------------------- *)

\* let config = { users: [], activeUser: null, globalConfig: null }, no files
\* of gitmt yet, and the developer's own identity in the global git config
InitWith(v) ==
    /\ variant = v
    /\ users = <<>>
    /\ activeUser = Null
    /\ globalConfig = None
    /\ sshConfig = <<>>
    /\ keyFiles = {}
    /\ gitGlobal = OwnIdentity
    /\ gitLocal = NoIdentity
    /\ preGlobal = gitGlobal
    /\ last = Cmd("init", Null, "none", TRUE, "none", "none")
    /\ procs = [p \in Procs |-> NotRunning]
    /\ lost = {}

InitBin == InitWith("bin")
InitAlias == InitWith("alias")

NextBin ==
    \/ \E p \in People, local \in BOOLEAN : Add(p.name, p.email, local)
    \/ \E id \in IdArgs : Remove(id)
    \/ \E id \in IdArgs, local \in BOOLEAN : Change(id, local)
    \/ Current
    \/ List
    \/ Global
    \/ \E id \in IdArgs : Key(id)

NextAlias ==
    \/ \E p \in AliasPeople, alias \in Aliases : AliasAdd(p.name, p.email, alias)
    \/ \E id \in IdArgs : AliasRemove(id)
    \/ \E id \in IdArgs : AliasChange(id)
    \/ AliasCurrent
    \/ AliasList
    \/ \E id \in IdArgs : AliasKey(id)

\* part_001 run with one alias only
NextAliasOne ==
    \/ \E p \in AliasPeople, alias \in OneAlias : AliasAdd(p.name, p.email, alias)
    \/ \E id \in IdArgs : AliasRemove(id)
    \/ \E id \in IdArgs : AliasChange(id)
    \/ AliasCurrent
    \/ AliasList
    \/ \E id \in IdArgs : AliasKey(id)

\* add commands one after the other, then two invocations of add or
\* remove at once, each started once; global scope
NextRace ==
    \/ /\ \A p \in Procs : procs[p].pc = "idle"
       /\ \E a \in People : Add(a.name, a.email, FALSE)
    \/ \E p \in Procs : RaceLoad(p)
    \/ \E p \in Procs, a \in People : RaceAdd(p, a.name, a.email, FALSE)
    \/ \E p \in Procs, id \in IdArgs : RaceRemove(p, id)

Init == InitBin \/ InitAlias
Next == NextBin \/ NextAliasOne

\* either build installed; part_001 is run with one alias, which is enough
\* for what the registry and the git configuration go through
Spec == Init /\ [][Next]_vars

\* bin/gitmt.js installed
SpecBin == InitBin /\ [][NextBin]_vars

\* part_001 installed, every alias: what ~/.ssh/config goes through
SpecAlias == InitAlias /\ [][NextAlias]_vars

\* bin/gitmt.js installed and run from two terminals at once
SpecRace == InitBin /\ [][NextRace]_vars

(* ------------------------------- claims -------------------------------- *)

HasId(us, id) == \E i \in 1..Len(us) : us[i].id = id

\* C1: after any sequence of add, remove and change from an empty registry,
\* activeUser is null or the id of a record that is in users.
C1_ActiveUserValid == activeUser = Null \/ HasId(users, activeUser)

\* C1 witness: a remove ran and left an active user, which is in users
C1_Witness ==
    /\ last.cmd = "remove" /\ last.out = "removed"
    /\ activeUser # Null /\ HasId(users, activeUser)

\* C2: no two records in users have the same alias
\* (stated for the build that has aliases; the code does not check it)
C2_AliasUnique ==
    \A i, j \in 1..Len(users) : i # j => users[i].alias # users[j].alias

\* C4: no two records in users have the same id
C4_IdsUnique ==
    \A i, j \in 1..Len(users) : i # j => users[i].id # users[j].id

\* C5: globalConfig is null or the global git identity as it was before
\* gitmt first wrote to the git configuration
C5_SnapshotIsOriginal ==
    globalConfig = None \/ globalConfig = Some(preGlobal)

\* the record find() returns for an id: the first one that has it
IsFirstWithId(us, i, id) ==
    i \in 1..Len(us) /\ us[i].id = id /\ ~HasId(SubSeq(us, 1, i - 1), id)

Ident(name, email) == [name |-> Some(name), email |-> Some(email)]

\* C3: after add with alias A completes, ~/.ssh/config holds exactly one
\* stanza headed `Host github.com-A`, whatever was answered to the key
\* prompt; after remove of that identity it holds none, whatever was
\* answered to the key prompt.
C3_AliasRoundTrip ==
    [][ /\ (last'.cmd = "add" /\ last'.done)
              => StanzaCount(sshConfig', users'[Len(users')].alias) = 1
        /\ (last'.cmd = "remove" /\ last'.out = "removed")
              => \A i \in 1..Len(users) :
                    IsFirstWithId(users, i, last'.userId)
                        => StanzaCount(sshConfig', users[i].alias) = 0 ]_vars

\* C6: an add that completes appends the new record; it makes the new
\* identity active and writes its name and email to the git configuration at
\* the requested scope exactly when no user was active before; otherwise
\* activeUser and the git configuration are as before.
C6_AddActivation ==
    [][ (last'.cmd = "add" /\ last'.done)
          => /\ Len(users') = Len(users) + 1
             /\ SubSeq(users', 1, Len(users)) = users
             /\ LET new == users'[Len(users')]
                IN  IF activeUser = Null
                    THEN /\ activeUser' = new.id
                         /\ IF last'.scope = "local"
                            THEN gitLocal' = Ident(new.name, new.email)
                                 /\ gitGlobal' = gitGlobal
                            ELSE gitGlobal' = Ident(new.name, new.email)
                                 /\ gitLocal' = gitLocal
                    ELSE /\ activeUser' = activeUser
                         /\ gitGlobal' = gitGlobal
                         /\ gitLocal' = gitLocal ]_vars

\* C6 witness: a second identity was added while the first stayed active
\* and the git configuration still names the first
C6_Witness ==
    /\ last.cmd = "add" /\ last.done /\ last.userId = 2
    /\ Len(users) = 2 /\ activeUser = 1
    /\ users[1].name # users[2].name
    /\ gitGlobal = Ident(users[1].name, users[1].email)

\* C7: a change(id) that completes, for an id in users, makes id the active
\* user in the registry file, writes that record's name and email to the git
\* configuration at the requested scope, and leaves users and ~/.ssh/config
\* as they were.
C7_Change ==
    [][ (last'.cmd = "change" /\ last'.done /\ HasId(users, last'.userId))
          => /\ activeUser' = last'.userId
             /\ \A i \in 1..Len(users) :
                   IsFirstWithId(users, i, last'.userId) =>
                      IF last'.scope = "local"
                      THEN gitLocal' = Ident(users[i].name, users[i].email)
                           /\ gitGlobal' = gitGlobal
                      ELSE gitGlobal' = Ident(users[i].name, users[i].email)
                           /\ gitLocal' = gitLocal
             /\ users' = users
             /\ sshConfig' = sshConfig ]_vars

\* C7 witness: change 2 switched from identity 1 to identity 2 in a
\* registry whose identities have stanzas in ~/.ssh/config
C7_Witness ==
    /\ last.cmd = "change" /\ last.done /\ last.userId = 2
    /\ activeUser = 2 /\ Len(users) = 2 /\ users[2].id = 2 /\ users[1].id = 1
    /\ users[1].name # users[2].name
    /\ gitGlobal = Ident(users[2].name, users[2].email)
    /\ HostLines(sshConfig) > 0

\* C8: remove(id) of an id in users deletes that record and no other, keeps
\* the order of the rest, sets activeUser to null exactly when it was id, and
\* leaves the stanzas of every other identity as they were: those headed by
\* the alias of a remaining record, the removed record's own headers (its
\* alias, and its name, under which add also writes a stanza) set aside.
C8_RemoveFrame ==
    [][ (last'.cmd = "remove" /\ HasId(users, last'.userId))
          => \A i \in 1..Len(users) :
                IsFirstWithId(users, i, last'.userId) =>
                   /\ users' = SubSeq(users, 1, i - 1)
                                  \o SubSeq(users, i + 1, Len(users))
                   /\ activeUser' = IF activeUser = last'.userId
                                    THEN Null ELSE activeUser
                   /\ \A k \in 1..Len(users') :
                         users'[k].alias \notin {users[i].alias, users[i].name}
                            => StanzaCount(sshConfig', users'[k].alias)
                                  = StanzaCount(sshConfig, users'[k].alias) ]_vars

\* C9: remove(id) and change(id) with an id that no record has, a
\* non-numeric argument included, change nothing on disk or in the git
\* configuration and end normally.
C9_NotFoundNoMutation ==
    [][ (last'.cmd \in {"remove", "change"} /\ ~HasId(users, last'.userId))
          => /\ UNCHANGED <<users, activeUser, globalConfig, sshConfig,
                            keyFiles, gitGlobal, gitLocal>>
             /\ last'.done /\ last'.out = "notfound" ]_vars

\* C9 witness: remove with a non-numeric argument on a registry that has
\* records, one of them active
C9_Witness ==
    /\ last.cmd = "remove" /\ last.out = "notfound" /\ last.userId = NaN
    /\ Len(users) > 0 /\ activeUser # Null

\* C10: list, current, global and key <id> leave the registry file as it
\* is, in every reachable state and for every id argument.
C10_ReadOnly ==
    [][ last'.cmd \in {"current", "list", "global", "key"}
          => UNCHANGED <<users, activeUser, globalConfig>> ]_vars

\* C10 witness: global ran on a registry that has records and no snapshot
C10_Witness ==
    /\ last.cmd = "global" /\ last.out = "nosaved"
    /\ Len(users) > 0 /\ activeUser # Null

\* C11: at every point of any sequence of add and remove commands,
\* ~/.ssh/config holds at most one stanza per host header: no two Host
\* lines of the file name the same host.
C11_OneStanzaPerHeader ==
    \A i, j \in 1..Len(sshConfig) :
        (i # j /\ sshConfig[i].word = "Host" /\ sshConfig[j].word = "Host")
            => sshConfig[i].arg # sshConfig[j].arg

\* C12: key(id) for an id in users whose public key file does not exist
\* reports that no SSH key was found, ends normally, does not read the file
\* and changes nothing.
C12_KeyAbsent ==
    [][ (last'.cmd = "key" /\ HasId(users, last'.userId))
          => \A i \in 1..Len(users) :
                (IsFirstWithId(users, i, last'.userId)
                   /\ Pub(users[i].sshKeyPath) \notin keyFiles)
                  => /\ last'.out = "nokey"
                     /\ last'.done
                     /\ last'.key # "read"
                     /\ keyFiles' = keyFiles ]_vars

\* C12 witness: key ran for an identity in users that has no key files
\* and reported that there is none
C12_Witness ==
    /\ last.cmd = "key" /\ last.out = "nokey" /\ last.done
    /\ \E i \in 1..Len(users) :
          /\ IsFirstWithId(users, i, last.userId)
          /\ Pub(users[i].sshKeyPath) \notin keyFiles

\* C13: remove(id) of an id in users skips no step after the key step,
\* whatever the key step's outcome (no key files, declined, failed,
\* deleted): every stanza of the record's alias that updateSSHConfig(alias,
\* "", true) deletes is gone from ~/.ssh/config, the record is gone from
\* users, and the handler ends normally having saved the registry.
C13_RemoveSkipsNoStep ==
    [][ (last'.cmd = "remove" /\ HasId(users, last'.userId))
          => \A i \in 1..Len(users) :
                IsFirstWithId(users, i, last'.userId) =>
                   /\ StanzaCount(sshConfig', users[i].alias)
                         <= StanzaCount(updateSSHConfig(sshConfig, users[i].alias,
                                                        <<>>, TRUE),
                                        users[i].alias)
                   /\ users' = splice(users, i)
                   /\ last'.done /\ last'.out = "removed" ]_vars

\* C14: add and change write the registry file only as their last step,
\* after the git identity was applied: when applying the git identity
\* fails, the registry file holds what it held before the command.
C14_RegistryWrittenLast ==
    [][ (last'.cmd \in {"add", "change"} /\ ~last'.done)
          => UNCHANGED <<users, activeUser, globalConfig>> ]_vars

\* C15: updateSSHConfig(alias, "", true), applied to any ~/.ssh/config the
\* commands can produce and to any alias or name they pass, leaves no stanza
\* headed exactly `Host github.com-<alias>`, wherever it was in the file,
\* leaves the stanzas of every other header as they were, and returns a
\* text that ends with exactly one newline.
C15_StoreRemove ==
    \A a \in Aliases \cup {p.name : p \in AliasPeople} :
        LET r == updateSSHConfig(sshConfig, a, <<>>, TRUE)
        IN  /\ StanzaCount(r, a) = 0
            /\ \A b \in (Aliases \cup {p.name : p \in AliasPeople}) \ {a} :
                   StanzaCount(r, b) = StanzaCount(sshConfig, b)
            /\ r # <<>>
            /\ (r = <<Blank>> \/ r[Len(r)] # Blank)

\* C16: with two invocations interleaved, what a process saves is what it
\* loaded with its own command applied, whatever the registry file holds
\* by then: add writes the records it loaded and one more, whose id is
\* their number plus one; remove writes the records it loaded without the
\* first that has the id; a remove that finds no record writes nothing.
C16_LastWriterWins ==
    [][ \A p \in Procs :
          (procs[p].pc = "loaded" /\ procs'[p].pc = "exited") =>
             LET config == procs[p].config
             IN  /\ (last'.cmd = "add" /\ last'.done)
                      => /\ users' = Append(config.users, users'[Len(users')])
                         /\ users'[Len(users')].id = Len(config.users) + 1
                 /\ (last'.cmd = "remove" /\ last'.out = "removed")
                      => \A i \in 1..Len(config.users) :
                            IsFirstWithId(config.users, i, last'.userId)
                               => /\ users' = splice(config.users, i)
                                  /\ activeUser'
                                        = clearActive(config.activeUser,
                                                      last'.userId)
                 /\ last'.out = "notfound"
                      => UNCHANGED <<users, activeUser, globalConfig>> ]_vars

\* C16 witness: an add has just saved a registry that lacks a record the
\* other process had added meanwhile, and gave its own record the id of
\* the record that was lost
C16_Witness ==
    /\ last.cmd = "add" /\ last.done
    /\ \E r \in lost : r.id = last.userId /\ r.name # users[Len(users)].name
    /\ users[Len(users)].id = last.userId

\* the record current and list show as active carries the global git identity
ActiveMatchesGit(us, active, git) ==
    active # Null =>
        \A i \in 1..Len(us) :
            IsFirstWithId(us, i, active) => git = Ident(us[i].name, us[i].email)

\* C17: as long as commands use the global scope and end normally, in
\* every state where activeUser is not null the first record whose id is
\* activeUser has the name and email of the global git identity: a command
\* that starts in such a state ends in one.
C17_ActiveIsGitIdentity ==
    [][ (/\ ActiveMatchesGit(users, activeUser, gitGlobal)
         /\ last'.scope # "local"
         /\ last'.done)
          => ActiveMatchesGit(users', activeUser', gitGlobal') ]_vars

\* C18: remove(id) deletes no key file that a record still in users
\* references: every key file of a remaining record that existed before
\* the remove exists after it.
C18_RemoveKeepsOthersKeys ==
    [][ (last'.cmd = "remove" /\ last'.out = "removed")
          => \A k \in 1..Len(users') :
                \A f \in {users'[k].sshKeyPath, Pub(users'[k].sshKeyPath)} :
                    f \in keyFiles => f \in keyFiles' ]_vars

====
